---- MODULE Spec2Model ----
(***************************************************************************)
(* A model of src/tmfs_scraping.py: the robots-aware fetch wrapper          *)
(* (safe_get), the recursive category paginator (scrape_category) with its *)
(* inlined product-page parser, the record type (Product / Themarket) and  *)
(* the module-level run driver.                                            *)
(*                                                                         *)
(* The web site is the environment.  Every GET draws the page it returns   *)
(* from a bounded set of pages; the exception a Python expression raises   *)
(* on a page is part of the step that evaluates it.  Network failures are  *)
(* not modelled: every GET of a well formed URL returns a page.            *)
(*                                                                         *)
(* Python values that may be None are sequences of length <= 1:            *)
(* None is <<>> and a value x is <<x>>.                                    *)
(***************************************************************************)
EXTENDS Integers, Sequences, FiniteSets, TLC

\* ------------------------------------------------------------------ bounds
MaxPages == 2      \* listing pages the site chains with "next" links
MaxLinks == 4      \* product-title headings on one listing page
MaxVariants == 2   \* entries of one variants payload
MaxBatch == 2      \* product pages of one parser run (SpecParser)

\* ------------------------------------------------------- program constants
PerPageCap == 3    \* links[:3]
DefaultDelay == 1  \* scrape_category(..., delay: float = 1)

None == <<>>
Some(x) == <<x>>

\* ------------------------------------------------------------------- URLs
\* A URL is its path kind (the prefix robots.txt rules match on) and the
\* page it names.
root_url == [kind |-> "root", page |-> 0, pos |-> 0]
ListingUrl(n) == [kind |-> "category", page |-> n, pos |-> 0]
ProductUrl(n, j) == [kind |-> "product", page |-> n, pos |-> j]

\* ----------------------------------------------------------------- events
\* The calls the program makes on the outside world, in order.
EvSleep(d) == [op |-> "sleep", arg |-> d]
EvGet(u) == [op |-> "get", arg |-> u]
EvCanFetch(u) == [op |-> "can_fetch", arg |-> u]

\* ------------------------------------------------------------- robots.txt
\* A policy: the path kinds it disallows for the client, and its optional
\* Crawl-delay.  The site either publishes no rule at all, or disallows its
\* product pages and asks for a delay of 2 seconds.
Policies ==
    {[disallow |-> {}, crawl_delay |-> None],
     [disallow |-> {"product"}, crawl_delay |-> Some(2)]}

\* robots.can_fetch(user_agent, link)
CanFetch(robots, link) == link.kind \notin robots.disallow

\* safe_get: the policy check, then the GET only when allowed.  Returns the
\* events issued and whether a response (rather than None) comes back.
safe_get(robots, link) ==
    IF CanFetch(robots, link)
    THEN [events |-> <<EvCanFetch(link), EvGet(link)>>, response |-> TRUE]
    ELSE [events |-> <<EvCanFetch(link)>>, response |-> FALSE]

\* ------------------------------------------------------------ JSON values
JNum(n) == [t |-> "num", v |-> n]
JStr(cs) == [t |-> "str", v |-> cs]
Digits == <<"0", "1", "2", "3", "4", "5", "6", "7", "8", "9">>
IsDigit(c) == \E d \in 1..10 : Digits[d] = c
DigitVal(c) == (CHOOSE d \in 1..10 : Digits[d] = c) - 1

RECURSIVE DigitsToNat(_)
DigitsToNat(cs) ==
    IF cs = <<>> THEN 0
    ELSE 10 * DigitsToNat(SubSeq(cs, 1, Len(cs) - 1)) + DigitVal(cs[Len(cs)])

\* pydantic's coercion of a raw value to the float field `price`:
\* [ok, v].  None and non-numeric strings are validation errors.
ToFloat(raw) ==
    IF raw = None THEN [ok |-> FALSE, v |-> 0]
    ELSE LET j == raw[1] IN
         IF j.t = "num" THEN [ok |-> TRUE, v |-> j.v]
         ELSE IF j.v # <<>> /\ \A i \in 1..Len(j.v) : IsDigit(j.v[i])
              THEN [ok |-> TRUE, v |-> DigitsToNat(j.v)]
              ELSE [ok |-> FALSE, v |-> 0]

\* ------------------------------------------------------------ record type
\* class Product(BaseModel) with the Themarket defaults; `d` is the keyword
\* dictionary.  Optional fields default to None and take an explicit None
\* (the pydantic 1 reading of `name: str = None`, the version whose .dict()
\* the driver calls); link and price are required.  date is the day the
\* module was loaded.
RunDate == "run-date"
Field(d, k) == IF k \in DOMAIN d THEN d[k] ELSE None

Themarket(d) ==
    LET p == ToFloat(Field(d, "price")) IN
    IF Field(d, "link") = None \/ ~p.ok
    THEN [ok |-> FALSE, item |-> None]
    ELSE [ok |-> TRUE,
          item |-> Some([link |-> d["link"][1],
                         source |-> "The Market Food Shop",
                         category |-> Field(d, "category"),
                         subcategory |-> Field(d, "subcategory"),
                         subsubcategory |-> Field(d, "subsubcategory"),
                         name |-> Field(d, "name"),
                         brand |-> Field(d, "brand"),
                         size |-> Field(d, "size"),
                         uid |-> Field(d, "uid"),
                         price |-> p.v,
                         regular_price |-> Field(d, "regular_price"),
                         currency |-> "NGN",
                         in_stock |-> Field(d, "in_stock"),
                         description |-> Field(d, "description"),
                         date |-> RunDate])]

\* parsed_product[k] = v
DictSet(d, k, v) == (k :> v) @@ d
EmptyDict == [k \in {} |-> None]

\* ---------------------------------------------------------- product pages
\* A product page: the h1.product_title text, the form.variations_form (its
\* data-product_variations attribute), and the script elements in document
\* order.  A JSON text is [ok, val]: whether json.loads accepts it and the
\* value it yields.
AttriKeys == {"attribute_pa_size", "attribute_pa_colour"}
StartsWithAttri(k) == k \in AttriKeys

\* [v for k, v in attributes.items() if k.startswith("attri")]
RECURSIVE AttriValues(_)
AttriValues(attrs) ==
    IF attrs = <<>> THEN <<>>
    ELSE (IF StartsWithAttri(attrs[1][1]) THEN <<attrs[1][2]>> ELSE <<>>)
         \o AttriValues(Tail(attrs))

\* product.find("script", {"type": "application/ld+json"},
\*              class_=lambda x: x != "yoast-schema-graph")
RECURSIVE FindLdJson(_)
FindLdJson(scripts) ==
    IF scripts = <<>> THEN None
    ELSE IF scripts[1].type = "application/ld+json"
            /\ scripts[1].class # Some("yoast-schema-graph")
         THEN Some(scripts[1])
         ELSE FindLdJson(Tail(scripts))

Raise(e) == [exc |-> e, results |-> <<>>]
Ok(rs) == [exc |-> "", results |-> rs]

\* Mutant of VariantLoop: the records are built after the loop, from the
\* dictionary as the last entry left it.
VariantLoopAliased(parsed, items, results) ==
    IF items = <<>> THEN Ok(results)
    ELSE LET last == items[Len(items)]
             sizes == AttriValues(last.attributes)
             p2 == DictSet(DictSet(parsed, "size",
                                   IF sizes = <<>> THEN None ELSE Some(sizes[1])),
                           "price", last.display_price)
             it == Themarket(p2)
         IN IF ~it.ok THEN Raise("ValidationError")
            ELSE Ok(results \o [i \in 1..Len(items) |-> it.item[1]])

\* for item in data_json: size, price, results.append(Item(**parsed_product))
RECURSIVE VariantLoop(_, _, _)
VariantLoop(parsed, items, results) ==
    IF items = <<>> THEN Ok(results)
    ELSE LET item == items[1]
             sizes == AttriValues(item.attributes)
         IN IF sizes = <<>> THEN Raise("IndexError")
            ELSE LET p1 == DictSet(parsed, "size", Some(sizes[1]))
                     p2 == DictSet(p1, "price", item.display_price)
                     it == Themarket(p2)
                 IN IF ~it.ok THEN Raise("ValidationError")
                    ELSE VariantLoop(p2, Tail(items),
                                     Append(results, it.item[1]))

\* Mutant of FreshParsed: the dictionary is created once, before the loop,
\* and keeps what the previous product left in it.
StaleParsed(results) ==
    IF results = <<>> THEN EmptyDict
    ELSE LET last == results[Len(results)] IN
         ("size" :> last.size) @@ ("description" :> last.description)
            @@ ("price" :> Some(JNum(last.price)))

\* The dictionary a product starts from, whatever was parsed before it:
\* parsed_product = {}.
FreshParsed(results) == EmptyDict

\* The body of `for l in links[:3]` after the GET: parse `product`, fetched
\* from `l`, and append its records to `results`.
ParseProduct(results, l, product) ==
    LET p0 == DictSet(FreshParsed(results), "link", Some(l)) IN
    IF product.title = None THEN Raise("AttributeError")
    ELSE
    LET p1 == DictSet(p0, "name", product.title) IN
    IF product.form # None
    THEN LET attr == product.form[1].variations IN
         IF attr = None THEN Raise("TypeError")
         ELSE IF ~attr[1].ok THEN Raise("JSONDecodeError")
         ELSE VariantLoop(p1, attr[1].val, results)
    ELSE LET sc == FindLdJson(product.scripts) IN
         IF sc = None THEN Raise("AttributeError")
         ELSE IF ~sc[1].text.ok THEN Raise("JSONDecodeError")
         ELSE LET data == sc[1].text.val IN
              IF data.offers = None \/ data.offers = Some(<<>>)
              THEN Raise(IF data.offers = None THEN "TypeError" ELSE "IndexError")
              ELSE LET p2 == DictSet(p1, "price", data.offers[1][1].price)
                       p3 == DictSet(p2, "description", data.description)
                       it == Themarket(p3)
                   IN IF ~it.ok THEN Raise("ValidationError")
                      ELSE Ok(Append(results, it.item[1]))

\* ------------------------------------------------- the pages a site serves
\* Sequences over S of length lo..hi.
SeqsUpTo(S, lo, hi) == UNION {[1..n -> S] : n \in lo..hi}

JsonText(v) == [ok |-> TRUE, val |-> v]
BadJsonText == [ok |-> FALSE, val |-> <<>>]

SizeNames == <<"1kg", "2kg", "5kg", "10kg", "25kg">>

\* Entry i of a variants payload: a non-variant key first, then two
\* variant-like keys, and a display price.
VariantEntry(i) ==
    [attributes |-> << <<"sku", "S">>,
                       <<"attribute_pa_size", SizeNames[i]>>,
                       <<"attribute_pa_colour", "red">> >>,
     display_price |-> Some(JNum(100 * i))]
\* An entry whose first variant-like key is the colour.
ColourEntry ==
    [attributes |-> << <<"attribute_pa_colour", "blue">>,
                       <<"attribute_pa_size", "1kg">> >>,
     display_price |-> Some(JNum(350))]
\* An entry with no variant-like key, and one with no display price.
PlainEntry ==
    [attributes |-> << <<"sku", "S">> >>, display_price |-> Some(JNum(50))]
UnpricedEntry ==
    [attributes |-> << <<"attribute_pa_size", "2kg">> >>, display_price |-> None]

Script(ty, cl, tx) == [type |-> ty, class |-> cl, text |-> tx]
LdJson(offers, desc) ==
    Script("application/ld+json", None,
           JsonText([offers |-> offers, description |-> desc]))
\* The schema-graph block the parser skips.
YoastScript ==
    Script("application/ld+json", Some("yoast-schema-graph"),
           JsonText([offers |-> Some(<<[price |-> Some(JNum(111))]>>),
                     description |-> Some("graph")]))
InlineScript == Script("text/javascript", None, BadJsonText)

Page(title, form, scripts) ==
    [title |-> title, form |-> form, scripts |-> scripts]
Form(text) == Some([variations |-> text])

\* A variant-free product of price 500 (as the string "500"), behind the
\* decoy block, with a second offer the parser must not take.
SimplePage ==
    Page(Some("Rice"), None,
         <<InlineScript, YoastScript,
           LdJson(Some(<<[price |-> Some(JStr(<<"5", "0", "0">>))],
                         [price |-> Some(JNum(900))]>>),
                  Some("Long grain"))>>)
\* A product with the first m variant entries.
VariantsPage(m) ==
    Page(Some("Beans"),
         Form(Some(JsonText([i \in 1..m |-> VariantEntry(i)]))),
         <<YoastScript>>)
NoTitlePage == Page(None, None, SimplePage.scripts)
NoLdPage == Page(Some("Rice"), None, <<InlineScript, YoastScript>>)
BadJsonPage ==
    Page(Some("Rice"), None,
         <<Script("application/ld+json", None, BadJsonText)>>)

\* What a product URL of the traversal may answer with.
ServedProducts ==
    {SimplePage, VariantsPage(MaxVariants), NoTitlePage, NoLdPage, BadJsonPage}

\* What a product URL of a parser run may answer with.
VariantEntries == {VariantEntry(1), ColourEntry, PlainEntry, UnpricedEntry}
ParserProducts ==
    {Page(Some("Beans"), Form(Some(JsonText(p))), <<YoastScript>>) :
        p \in SeqsUpTo(VariantEntries, 0, MaxVariants)}
    \cup {Page(Some("Beans"), Form(None), <<>>),
          Page(Some("Beans"), Form(Some(BadJsonText)), <<>>)}
    \cup {SimplePage, NoTitlePage, NoLdPage, BadJsonPage,
          Page(Some("Oil"), None, <<>>),
          Page(Some("Oil"), None, <<LdJson(Some(<<[price |-> Some(JNum(750))]>>), None)>>),
          Page(Some("Oil"), None, <<LdJson(None, Some("d"))>>),
          Page(Some("Oil"), None, <<LdJson(Some(<<>>), Some("d"))>>),
          Page(Some("Oil"), None, <<LdJson(Some(<<[price |-> Some(JStr(<<"n", "a">>))]>>), Some("d"))>>),
          Page(Some("Oil"), None, <<LdJson(Some(<<[price |-> None]>>), Some("d"))>>)}

\* ---------------------------------------------------------- listing pages
\* A listing page: its h3.product-title headings in document order, each
\* None-or-anchor with a None-or-URL href, and its ul.page-numbers (None, or
\* the list with its a.next, None-or-anchor).
Anchor(href) == Some([href |-> href])
Listing(heads, pag) == [heads |-> heads, pag |-> pag]

Paginations(n) ==
    {None, Some([next |-> None]), Some([next |-> Anchor(None)])}
        \cup (IF n < MaxPages
              THEN {Some([next |-> Anchor(Some(ListingUrl(n + 1)))])}
              ELSE {})

\* What listing URL n may answer with: k linked headings (up to the cap, or
\* MaxLinks of them) and any pagination, or a heading without an anchor, or
\* an anchor without an href.
ListingPages(n) ==
    {Listing([j \in 1..k |-> Anchor(Some(ProductUrl(n, j)))], pag) :
        k \in (0..PerPageCap) \cup {MaxLinks}, pag \in Paginations(n)}
    \cup {Listing(<<None>>, None), Listing(<<Anchor(None)>>, None)}

\* The navigation menus the homepage may hold: no category, one category,
\* or one whose anchor has no href.  Categories are scraped one after the
\* other and share nothing but data_list.
HomeMenus ==
    {<<>>,
     <<[name |-> "Grains", link |-> Some(ListingUrl(1))]>>,
     <<[name |-> "Grains", link |-> None]>>}

\* [item.find("a").get("href") for item in page.find_all(...)]
LinksOf(page) ==
    IF \E j \in 1..Len(page.heads) : page.heads[j] = None
    THEN [exc |-> "AttributeError", links |-> <<>>]
    ELSE [exc |-> "",
          links |-> [j \in 1..Len(page.heads) |-> page.heads[j][1].href]]

Min(a, b) == IF a < b THEN a ELSE b

\* Mutant of Dispatched: every link found is dispatched.
DispatchedAll(links) == links

\* links[:3]
Dispatched(links) == SubSeq(links, 1, Min(PerPageCap, Len(links)))

\* The try block up to the recursive call: whether the lookup raises,
\* whether the call is made, and the link it is made on.
FindNext(page) ==
    IF page.pag = None
    THEN [exc |-> "AttributeError", recurse |-> FALSE, link |-> None]
    ELSE IF page.pag[1].next = None
         THEN [exc |-> "", recurse |-> FALSE, link |-> None]
         ELSE [exc |-> "", recurse |-> TRUE, link |-> page.pag[1].next[1].href]

\* Mutant of Caught: no except clause.
CaughtNothing(e) == FALSE

\* except AttributeError: pass
Caught(e) == e = "AttributeError"

\* Mutant of PassedDelay: the recursive call leaves delay to its default.
PassedDefault(d) == Some(DefaultDelay)

\* The delay a recursive call is given: delay=delay.
PassedDelay(d) == d

\* prod.dict(exclude_none=True)
Row(item) ==
    [k \in {f \in DOMAIN item :
              ~(f \notin {"link", "source", "price", "currency", "date"}
                /\ item[f] = None)} |-> item[k]]

\* ------------------------------------------------------------------ state
VARIABLES
    dpc,        \* the run driver's position
    robots,     \* the robots.txt policy read at start
    delay,      \* the module-level delay
    link_list,  \* the categories found on the homepage
    ci,         \* the driver loop's position in link_list
    data_list,  \* the records gathered by the driver
    exported,   \* None, or the rows written to the CSV file
    stack,      \* the activations of scrape_category, innermost last
    exc,        \* the exception in flight ("" when none)
    log,        \* the outside calls made so far
    visits,     \* per listing page fetched: what was served and dispatched
    pserved,    \* parser run: the product pages served so far
    presults,   \* parser run: the results list
    pmarks,     \* parser run: Len(results) after each parsed product
    pexc        \* parser run: the exception raised ("" when none)

vars == <<dpc, robots, delay, link_list, ci, data_list, exported, stack, exc,
          log, visits, pserved, presults, pmarks, pexc>>
driverVars == <<dpc, robots, delay, link_list, ci, data_list, exported>>
parserVars == <<pserved, presults, pmarks, pexc>>

Top == stack[Len(stack)]
SetTop(f) == [stack EXCEPT ![Len(stack)] = f]
Pop == SubSeq(stack, 1, Len(stack) - 1)

Frame(link, category, d) ==
    [link |-> link, category |-> category, delay |-> d, pc |-> "fetch",
     page |-> None, links |-> <<>>, i |-> 1, results |-> <<>>, visit |-> 0]

Init ==
    /\ dpc = "robots"
    /\ robots \in Policies
    /\ delay = None
    /\ link_list = <<>>
    /\ ci = 1
    /\ data_list = <<>>
    /\ exported = None
    /\ stack = <<>>
    /\ exc = ""
    /\ log = <<>>
    /\ visits = <<>>
    /\ pserved = <<>>
    /\ presults = <<>>
    /\ pmarks = <<>>
    /\ pexc = ""

\* ------------------------------------------------------------- run driver
\* robots_tfms.read(); delay = robots_tfms.crawl_delay(...)
ReadRobots ==
    /\ dpc = "robots"
    /\ delay' = robots.crawl_delay
    /\ dpc' = "home"
    /\ UNCHANGED <<robots, link_list, ci, data_list, exported, stack, exc,
                   log, visits, parserVars>>

\* homepage = s.get(root_url) and the menu links
GetHomepage ==
    /\ dpc = "home"
    /\ \E menu \in HomeMenus : link_list' = menu
    /\ log' = Append(log, EvGet(root_url))
    /\ dpc' = "loop"
    /\ UNCHANGED <<robots, delay, ci, data_list, exported, stack, exc,
                   visits, parserVars>>

\* for cat in link_list: scrape_category(link, category, Item, s, delay)
CallScrape ==
    /\ dpc = "loop"
    /\ ci <= Len(link_list)
    /\ stack' = <<Frame(link_list[ci].link, link_list[ci].name, delay)>>
    /\ dpc' = "call"
    /\ UNCHANGED <<robots, delay, link_list, ci, data_list, exported, exc,
                   log, visits, parserVars>>

\* data_list.extend(<the call's result>)
ReturnToDriver ==
    /\ dpc = "call" /\ exc = ""
    /\ Len(stack) = 1 /\ Top.pc = "ret"
    /\ data_list' = data_list \o Top.results
    /\ ci' = ci + 1
    /\ stack' = <<>>
    /\ dpc' = "loop"
    /\ UNCHANGED <<robots, delay, link_list, exported, exc, log, visits,
                   parserVars>>

\* data_df = ...; data_df.to_csv(...)
Export ==
    /\ dpc = "loop"
    /\ ci > Len(link_list)
    /\ exported' = Some([n \in 1..Len(data_list) |-> Row(data_list[n])])
    /\ dpc' = "done"
    /\ UNCHANGED <<robots, delay, link_list, ci, data_list, stack, exc, log,
                   visits, parserVars>>

\* An exception no except clause takes leaves every activation of
\* scrape_category and ends the process: nothing in the driver handles it.
Crash ==
    /\ dpc = "call" /\ exc # "" /\ stack # <<>>
    /\ ~(Len(stack) > 1 /\ Caught(exc))
    /\ stack' = <<>>
    /\ dpc' = "crashed"
    /\ UNCHANGED <<robots, delay, link_list, ci, data_list, exported, exc,
                   log, visits, parserVars>>

\* -------------------------------------------------------- scrape_category
\* time.sleep(delay); page = s.get(link); links = [...]; results = []
FetchListing ==
    /\ stack # <<>> /\ exc = "" /\ Top.pc = "fetch"
    /\ IF Top.delay = None
       THEN exc' = "TypeError" /\ UNCHANGED <<stack, log, visits>>
       ELSE IF Top.link = None
       THEN /\ exc' = "MissingSchema"
            /\ log' = Append(log, EvSleep(Top.delay[1]))
            /\ UNCHANGED <<stack, visits>>
       ELSE \E page \in ListingPages(Top.link[1].page) :
            LET ls == LinksOf(page) IN
            /\ log' = log \o <<EvSleep(Top.delay[1]), EvGet(Top.link[1])>>
            /\ visits' = Append(visits, [link |-> Top.link[1], page |-> page,
                                         served |-> <<>>])
            /\ exc' = ls.exc
            /\ stack' = SetTop([Top EXCEPT !.page = Some(page),
                                           !.links = ls.links,
                                           !.visit = Len(visits) + 1,
                                           !.pc = "products"])
    /\ UNCHANGED <<driverVars, parserVars>>

\* One turn of `for l in links[:3]`: the wait, the GET and the parse.
Product ==
    /\ stack # <<>> /\ exc = "" /\ Top.pc = "products"
    /\ Top.i <= Len(Dispatched(Top.links))
    /\ LET l == Dispatched(Top.links)[Top.i] IN
       IF l = None
       THEN /\ exc' = "MissingSchema"
            /\ log' = Append(log, EvSleep(Top.delay[1]))
            /\ UNCHANGED <<stack, visits>>
       ELSE \E product \in ServedProducts :
            LET r == ParseProduct(Top.results, l[1], product) IN
            /\ log' = log \o <<EvSleep(Top.delay[1]), EvGet(l[1])>>
            /\ visits' = [visits EXCEPT ![Top.visit].served =
                              Append(@, [link |-> l[1], page |-> product])]
            /\ exc' = r.exc
            /\ stack' = SetTop(IF r.exc = ""
                               THEN [Top EXCEPT !.results = r.results,
                                                !.i = @ + 1]
                               ELSE Top)
    /\ UNCHANGED <<driverVars, parserVars>>

\* The try block: the pagination lookup and the recursive call.
Paginate ==
    /\ stack # <<>> /\ exc = "" /\ Top.pc = "products"
    /\ Top.i > Len(Dispatched(Top.links))
    /\ LET nx == FindNext(Top.page[1]) IN
       IF nx.exc # ""
       THEN IF Caught(nx.exc)
            THEN exc' = "" /\ stack' = SetTop([Top EXCEPT !.pc = "ret"])
            ELSE exc' = nx.exc /\ UNCHANGED stack
       ELSE /\ exc' = ""
            /\ stack' =
                 IF nx.recurse
                 THEN Append(SetTop([Top EXCEPT !.pc = "await"]),
                             Frame(nx.link, Top.category,
                                   PassedDelay(Top.delay)))
                 ELSE SetTop([Top EXCEPT !.pc = "ret"])
    /\ UNCHANGED <<driverVars, parserVars, log, visits>>

\* results.extend(next_results); return results
Return ==
    /\ Len(stack) > 1 /\ exc = "" /\ Top.pc = "ret"
    /\ stack' = [Pop EXCEPT ![Len(stack) - 1] =
                    [@ EXCEPT !.results = @ \o Top.results, !.pc = "ret"]]
    /\ UNCHANGED <<driverVars, parserVars, exc, log, visits>>

\* An exception leaves the recursive call inside the caller's try block and
\* the caller's except clause takes it: pass; return results.
Catch ==
    /\ Len(stack) > 1 /\ exc # "" /\ Caught(exc)
    /\ stack' = [Pop EXCEPT ![Len(stack) - 1] = [@ EXCEPT !.pc = "ret"]]
    /\ exc' = ""
    /\ UNCHANGED <<driverVars, parserVars, log, visits>>

Next ==
    \/ ReadRobots
    \/ GetHomepage
    \/ CallScrape
    \/ ReturnToDriver
    \/ Export
    \/ Crash
    \/ FetchListing
    \/ Product
    \/ Paginate
    \/ Return
    \/ Catch

Spec == Init /\ [][Next]_vars

\* ------------------------------------------------------------- parser run
\* The loop body applied to a batch of product pages, each drawn from the
\* wider set ParserProducts.
InitParser ==
    /\ dpc = "parser"
    /\ robots \in {[disallow |-> {}, crawl_delay |-> None]}
    /\ delay = None
    /\ link_list = <<>>
    /\ ci = 1
    /\ data_list = <<>>
    /\ exported = None
    /\ stack = <<>>
    /\ exc = ""
    /\ log = <<>>
    /\ visits = <<>>
    /\ pserved = <<>>
    /\ presults = <<>>
    /\ pmarks = <<>>
    /\ pexc = ""

ParseStep ==
    /\ dpc = "parser" /\ pexc = ""
    /\ Len(pserved) < MaxBatch
    /\ \E product \in ParserProducts :
         LET l == ProductUrl(1, Len(pserved) + 1)
             r == ParseProduct(presults, l, product)
         IN /\ pserved' = Append(pserved, [link |-> l, page |-> product])
            /\ pexc' = r.exc
            /\ presults' = IF r.exc = "" THEN r.results ELSE presults
            /\ pmarks' = IF r.exc = "" THEN Append(pmarks, Len(r.results))
                         ELSE pmarks
    /\ UNCHANGED <<driverVars, stack, exc, log, visits>>

NextParser == ParseStep

SpecParser == InitParser /\ [][NextParser]_vars

\* =================================================================== claims
\* ------------------------------------------------ parser claims (SpecParser)
\* The records product n of a parser run appended: presults[lo+1..hi].
MarkLo(n) == IF n = 1 THEN 0 ELSE pmarks[n - 1]
MarkHi(n) == pmarks[n]

\* The value of the first attribute, in payload order, whose key is
\* variant-like.
HasAttri(e) ==
    \E j \in 1..Len(e.attributes) : e.attributes[j][1] \in AttriKeys
FirstAttri(e) ==
    LET j == CHOOSE j \in 1..Len(e.attributes) :
                 /\ e.attributes[j][1] \in AttriKeys
                 /\ \A i \in 1..(j - 1) : e.attributes[i][1] \notin AttriKeys
    IN e.attributes[j][2]

\* A product page with a title and a variants payload whose entries each
\* have a variant-like attribute and a display price.
HasVariants(p) ==
    /\ p.title # None
    /\ p.form # None
    /\ p.form[1].variations # None
    /\ p.form[1].variations[1].ok
    /\ \A i \in 1..Len(p.form[1].variations[1].val) :
          /\ HasAttri(p.form[1].variations[1].val[i])
          /\ p.form[1].variations[1].val[i].display_price # None
VariantItems(p) == p.form[1].variations[1].val

\* What two records of one product may differ in.
SameButSizePrice(r1, r2) ==
    [r1 EXCEPT !.size = None, !.price = 0] = [r2 EXCEPT !.size = None, !.price = 0]

\* C6: a product page with a variants payload of m entries appends exactly m
\* records, in payload order; record i takes its size from the first
\* variant-like attribute of entry i and its price from entry i's display
\* price; all m share link, name and category and differ only in size and
\* price.
C6_OneRecordPerVariant ==
    \A n \in 1..Len(pserved) :
        HasVariants(pserved[n].page) =>
            /\ n <= Len(pmarks)
            /\ LET items == VariantItems(pserved[n].page)
                   lo == MarkLo(n)
               IN /\ MarkHi(n) - lo = Len(items)
                  /\ \A i \in 1..Len(items) :
                        /\ presults[lo + i].size = Some(FirstAttri(items[i]))
                        /\ presults[lo + i].price = items[i].display_price[1].v
                        /\ presults[lo + i].link = pserved[n].link
                        /\ presults[lo + i].name = pserved[n].page.title
                        /\ \A k \in 1..Len(items) :
                              SameButSizePrice(presults[lo + i], presults[lo + k])

\* A second product with two different variant entries has been parsed.
C6_Witness ==
    /\ Len(pmarks) = 2
    /\ HasVariants(pserved[2].page)
    /\ Len(VariantItems(pserved[2].page)) = 2
    /\ VariantItems(pserved[2].page)[1] = ColourEntry
    /\ VariantItems(pserved[2].page)[2] = VariantEntry(1)
    /\ MarkHi(2) - MarkLo(2) = 2

\* A product page with a title, no variants form, and a structured-data
\* block whose first offer has a usable price.
IsSimple(p) ==
    /\ p.title # None
    /\ p.form = None
    /\ FindLdJson(p.scripts) # None
    /\ FindLdJson(p.scripts)[1].text.ok
    /\ LET data == FindLdJson(p.scripts)[1].text.val IN
          /\ data.offers # None
          /\ data.offers[1] # <<>>
          /\ ToFloat(data.offers[1][1].price).ok
SimpleData(p) == FindLdJson(p.scripts)[1].text.val

\* C7: a product page without a variants payload appends exactly one record;
\* its price is the first offer's price, its description the payload's
\* description, and its size is unset whatever was parsed before it.
C7_SimpleRecord ==
    \A n \in 1..Len(pserved) :
        IsSimple(pserved[n].page) =>
            /\ n <= Len(pmarks)
            /\ MarkHi(n) - MarkLo(n) = 1
            /\ LET r == presults[MarkHi(n)]
                   data == SimpleData(pserved[n].page)
               IN /\ r.price = ToFloat(data.offers[1][1].price).v
                  /\ r.description = data.description
                  /\ r.size = None
                  /\ r.link = pserved[n].link
                  /\ (pserved[n].page = SimplePage => r.price = 500)

\* A variant-free product has been parsed right after one with variants.
C7_Witness ==
    /\ Len(pmarks) = 2
    /\ HasVariants(pserved[1].page)
    /\ MarkHi(1) > 0
    /\ pserved[2].page = SimplePage
    /\ presults[MarkHi(2)].price = 500

\* --------------------------------------------------- traversal claims (Spec)
IsFetch(e) == e.op = "get" /\ e.arg.kind \in {"category", "product"}
Fetches(kind) ==
    {i \in 1..Len(log) : log[i].op = "get" /\ log[i].arg.kind = kind}
AllRecords ==
    {data_list[i] : i \in 1..Len(data_list)}
        \cup UNION {{stack[n].results[i] : i \in 1..Len(stack[n].results)} :
                       n \in 1..Len(stack)}
ServedLinks(v) == [j \in 1..Len(v.served) |-> v.served[j].link]
AllServed ==
    UNION {{visits[n].served[j] : j \in 1..Len(visits[n].served)} :
              n \in 1..Len(visits)}

\* C1: every fetch of a listing or product page comes right after a policy
\* check of its URL, a disallowed URL is never fetched, and no product page
\* of a disallowed URL is parsed.
C1_PolicyCheckedBeforeFetch ==
    /\ \A i \in 1..Len(log) :
          IsFetch(log[i]) =>
              /\ i > 1
              /\ log[i - 1] = EvCanFetch(log[i].arg)
              /\ CanFetch(robots, log[i].arg)
    /\ \A s \in AllServed : CanFetch(robots, s.link)

\* C2: every record gathered carries the product URL it was parsed from and
\* the category name the driver passed in.
C2_RecordsCarryLinkAndCategory ==
    /\ \A r \in AllRecords :
          /\ \E s \in AllServed : r.link = s.link
          /\ link_list # <<>> /\ r.category = Some(link_list[1].name)
    /\ \A n \in 1..Len(stack) : \A i \in 1..Len(stack[n].results) :
          stack[n].results[i].category = Some(stack[n].category)

\* A product page without the title heading, or a variant-free one without
\* the structured-data block.
MissingMarkup(p) ==
    \/ p.title = None
    \/ p.form = None /\ FindLdJson(p.scripts) = None

\* C3: once a dispatched product page lacks its title or structured-data
\* block, on whichever listing page, the top-level call never returns a list
\* and nothing is exported.
C3_MissingMarkupAborts ==
    (\E s \in AllServed : MissingMarkup(s.page)) =>
        /\ exported = None
        /\ ci = 1
        /\ dpc # "done"

\* A listing page whose next control carries no URL.
NextWithoutUrl(page) ==
    /\ page.pag # None
    /\ page.pag[1].next # None
    /\ page.pag[1].next[1].href = None

\* C8: an activation whose listing page has a next control without a URL
\* never makes the recursive call.
C8_NoRecursionWithoutUrl ==
    \A n \in 1..Len(stack) :
        (stack[n].page # None /\ NextWithoutUrl(stack[n].page[1])) =>
            /\ n = Len(stack)
            /\ stack[n].pc # "await"

\* C9: the delay scrape_category waits with is never None; without a
\* Crawl-delay in the policy it is the default of 1 second, and no wait fails.
C9_DefaultDelay ==
    /\ \A n \in 1..Len(stack) :
          /\ stack[n].delay # None
          /\ robots.crawl_delay = None => stack[n].delay = Some(1)
    /\ exc # "TypeError"

\* The first min(3, k) links of a listing page with k linked headings.
FirstThree(page) ==
    [j \in 1..(IF Len(page.heads) < 3 THEN Len(page.heads) ELSE 3) |->
        page.heads[j][1].href[1]]
IsPrefix(a, b) == Len(a) <= Len(b) /\ a = SubSeq(b, 1, Len(a))
LinkedHeadings(page) ==
    \A j \in 1..Len(page.heads) :
        page.heads[j] # None /\ page.heads[j][1].href # None

\* C5: the product pages fetched for a listing page are, in page order, the
\* first of its first min(3, k) links, and exactly those once its loop is
\* over; product fetches never exceed 3 times the listing fetches.
C5_AtMostThreePerPage ==
    /\ \A n \in 1..Len(visits) :
          LinkedHeadings(visits[n].page) =>
              /\ Len(visits[n].served) <= 3
              /\ IsPrefix(ServedLinks(visits[n]), FirstThree(visits[n].page))
    /\ \A n \in 1..Len(stack) :
          stack[n].pc \in {"await", "ret"} =>
              ServedLinks(visits[stack[n].visit])
                  = FirstThree(visits[stack[n].visit].page)
    /\ Cardinality(Fetches("product")) <= 3 * Cardinality(Fetches("category"))

\* A listing page with more than 3 links has had its loop run to the end.
C5_Witness ==
    /\ stack # <<>>
    /\ Top.pc = "ret"
    /\ Len(Top.page[1].heads) = MaxLinks
    /\ Len(visits[Top.visit].served) = 3
    /\ Len(visits) = 2

\* C10: every listing or product fetch comes right after exactly one wait,
\* of the delay the driver passed, on every page of the recursion.
C10_OneWaitBeforeEachFetch ==
    \A i \in 1..Len(log) :
        IsFetch(log[i]) =>
            /\ i > 1
            /\ log[i - 1] = EvSleep(delay[1])
            /\ i > 2 => log[i - 2].op # "sleep"

\* A product page of a second listing page has been fetched.
C10_Witness ==
    /\ Len(visits) = 2
    /\ Len(visits[2].served) = 2
    /\ Cardinality(Fetches("product")) = 5

\* Every page served so far is well formed: headings carry links, a next
\* control carries a URL, product pages parse; and the delay is a number.
WellFormedProduct(p) == IsSimple(p) \/ HasVariants(p)
WellFormedChain ==
    /\ dpc \notin {"robots", "home"}
    /\ delay # None
    /\ \A c \in 1..Len(link_list) : link_list[c].link # None
    /\ \A n \in 1..Len(visits) :
          /\ LinkedHeadings(visits[n].page)
          /\ ~NextWithoutUrl(visits[n].page)
          /\ \A j \in 1..Len(visits[n].served) :
                WellFormedProduct(visits[n].served[j].page)
HasNextUrl(page) ==
    /\ page.pag # None
    /\ page.pag[1].next # None
    /\ page.pag[1].next[1].href # None
ListingFetches ==
    LET RECURSIVE Pick(_)
        Pick(i) == IF i > Len(log) THEN <<>>
                   ELSE (IF log[i].op = "get" /\ log[i].arg.kind = "category"
                         THEN <<log[i].arg>> ELSE <<>>) \o Pick(i + 1)
    IN Pick(1)

\* C4: on a chain of well formed pages no exception is raised, the listing
\* fetches are the start link followed by each page's next URL, each once,
\* and when the call has returned the last page fetched is the first one
\* without a pagination widget or next control.
C4_ChainFetchedOnce ==
    WellFormedChain =>
        /\ exc = "" /\ dpc # "crashed"
        /\ ListingFetches = [n \in 1..Len(visits) |-> visits[n].link]
        /\ \A n \in 1..Len(visits) :
              /\ n = 1 => visits[n].link = link_list[1].link[1]
              /\ n > 1 => /\ HasNextUrl(visits[n - 1].page)
                          /\ visits[n].link = visits[n - 1].page.pag[1].next[1].href[1]
              /\ \A m \in 1..Len(visits) : visits[m].link = visits[n].link => m = n
        /\ (dpc \in {"loop", "done"} /\ ci > 1) =>
              /\ visits # <<>>
              /\ ~HasNextUrl(visits[Len(visits)].page)
        /\ (dpc \notin {"done", "crashed"}) => ENABLED Next

\* A chain of two pages, the second without a pagination widget, has been
\* traversed and its records exported.
C4_Witness ==
    /\ WellFormedChain
    /\ dpc = "done"
    /\ Len(visits) = 2
    /\ visits[2].page.pag = None
    /\ Len(data_list) > 3
====
